---------------------------- MODULE Spec2Model ----------------------------
(***************************************************************************)
(* golex: a lexer engine in the style of Rob Pike's 2011 talk.             *)
(*                                                                         *)
(* The engine is the second package body of src/golex.go (lines 258-471):  *)
(* Lexer, New, RunSync, RunConc, run, Listen, NextToken, Emit, CheckEmit,  *)
(* Next, Ignore, Backup, Peek, Accept, AcceptRun, NextHasPrefix, Errorf.   *)
(* Two grammars drive it:                                                  *)
(*   "mock"  the test grammar of src/golex_test.go (mockTextStateFn ...),  *)
(*   "lex"   the template grammar of src/golex.go:104-198 (lexText ...),   *)
(*           whose calls next/emit/errorf/backup/ignore/accept/acceptRun/  *)
(*           peek have the same bodies as the engine's exported ones; its  *)
(*           end-of-input and error tokens are the engine's TokenEOF and   *)
(*           TokenError.                                                   *)
(*                                                                         *)
(* The input is a sequence of bytes.  A byte is a one-character string,    *)
(* except the two bytes of the two-byte rune U+00E9, written "C3" "A9".    *)
(* A rune is a string too: an ASCII byte stands for itself, "e9" is        *)
(* U+00E9, RuneError is U+FFFD and EOF is rune(TokenEOF).                  *)
(***************************************************************************)
EXTENDS Integers, Sequences, FiniteSets, TLC

VARIABLES
    Input,      \* Lexer.Input, the bytes
    grammar,    \* which grammar's initial state New was given
    mode,       \* "new" | "pull" | "conc" | "sync" | "prim"
    State,      \* Lexer.State: the name of a state function, or "nil"
    cur,        \* [Start, Current, Width]: the Lexer's cursor fields
    Tokens,     \* the buffer of the channel Lexer.Tokens
    capacity,   \* cap(Lexer.Tokens)
    closed,     \* close(l.Tokens) has run
    run,        \* the position of run(): [pc, state, pending, final]
    received,   \* the tokens the consumer was returned, in order
    last,       \* the last return of Listen / NextToken: <<[tok, done]>> or <<>>
    halt,       \* "" | "panic" | "blocked": how the calling goroutine ended
    log,        \* history: every completed send, [tok, at] with the cursor at the send
    closedAt,   \* history: Len(log) when the channel was closed, -1 before
    op          \* history of the last cursor primitive applied alone: [name, pre, ret, sends, ok]

vars == <<Input, grammar, mode, State, cur, Tokens, capacity, closed, run,
          received, last, halt, log, closedAt, op>>

---------------------------------------------------------------------------
(* Bounds of the model *)

MaxLen == 4

MaxPrimLen == 3

\* how many receives from the closed, drained channel the consumer is followed through
MaxClosedReads == 2

\* the longest input of the runs checked for progress
MaxConcLen == 4

---------------------------------------------------------------------------
(* Token types *)

TokenEOF == -2

TokenError == -1

TokenText == 0

TokenOpenBlock == 1

TokenCloseBlock == 2

TokenNewLine == 3

TokenCharO == 4

tokenCloseBlock == 1

tokenIdentifier == 7

tokenNumber == 9

tokenOpenBlock == 10

tokenText == 13

EOF == "EOF"

RuneError == "RuneError"

openBlock == <<"{", "{">>

closeBlock == <<"}", "}">>

newLine == <<"\n">>

NewCap == 2

\* The zero value of Token, which a receive from a closed, drained channel yields
ZeroToken == [Typ |-> 0, Val |-> <<>>]

---------------------------------------------------------------------------
(* Strings and runes *)

\* Go's s[i:j]
Slice(s, i, j) == SubSeq(s, i + 1, j)

\* utf8.DecodeRuneInString on a non-empty byte string: the rune and its width
DecodeRuneInString(s) ==
    IF s[1] = "C3"
    THEN IF Len(s) >= 2 /\ s[2] = "A9"
         THEN [r |-> "e9", size |-> 2]
         ELSE [r |-> RuneError, size |-> 1]
    ELSE IF s[1] = "A9"
    THEN [r |-> RuneError, size |-> 1]
    ELSE [r |-> s[1], size |-> 1]

\* the runes `for _, r := range s` yields
RECURSIVE RunesOf(_)
RunesOf(s) ==
    IF s = <<>> THEN {}
    ELSE LET d == DecodeRuneInString(s)
         IN {d.r} \cup RunesOf(Slice(s, d.size, Len(s)))

\* strings.IndexRune(valid, r) >= 0; a rune that is not a valid code point
\* (EOF is negative) is never found
IndexRune(valid, r) == r /= EOF /\ r \in RunesOf(valid)

\* strings.HasPrefix
HasPrefix(s, prefix) ==
    Len(s) >= Len(prefix) /\ SubSeq(s, 1, Len(prefix)) = prefix

Letters ==
    {"a", "b", "c", "d", "e", "f", "g", "h", "i", "j", "k", "l", "m",
     "n", "o", "p", "q", "r", "s", "t", "u", "v", "w", "x", "y", "z",
     "A", "B", "C", "D", "E", "F", "G", "H", "I", "J", "K", "L", "M",
     "N", "O", "P", "Q", "R", "S", "T", "U", "V", "W", "X", "Y", "Z", "e9"}

IsSpace(r) == r \in {" ", "\n", "\t", "\r"}

IsAlpha(r) == r \in Letters

---------------------------------------------------------------------------
(* The cursor primitives, on c = [Start, Current, Width] *)

Cursor0 == [Start |-> 0, Current |-> 0, Width |-> 0]

\* Next with the end-of-input case counting a byte
NextCountsEOF(inp, c) ==
    IF c.Current >= Len(inp)
    THEN [c |-> [c EXCEPT !.Width = 1, !.Current = @ + 1], r |-> EOF]
    ELSE LET d == DecodeRuneInString(Slice(inp, c.Current, Len(inp)))
         IN [c |-> [c EXCEPT !.Width = d.size, !.Current = @ + d.size],
             r |-> d.r]

\* Next without l.Width = 0 at the end of input
NextKeepsWidth(inp, c) ==
    IF c.Current >= Len(inp)
    THEN [c |-> c, r |-> EOF]
    ELSE LET d == DecodeRuneInString(Slice(inp, c.Current, Len(inp)))
         IN [c |-> [c EXCEPT !.Width = d.size, !.Current = @ + d.size],
             r |-> d.r]

Next(inp, c) ==
    IF c.Current >= Len(inp)
    THEN [c |-> [c EXCEPT !.Width = 0], r |-> EOF]
    ELSE LET d == DecodeRuneInString(Slice(inp, c.Current, Len(inp)))
         IN [c |-> [c EXCEPT !.Width = d.size, !.Current = @ + d.size],
             r |-> d.r]

Ignore(c) == [c EXCEPT !.Start = c.Current]

Backup(c) == [c EXCEPT !.Current = @ - c.Width]

\* Peek putting back the Width it found
PeekRestoresWidth(inp, c) ==
    LET n == Next(inp, c)
    IN [c |-> [Backup(n.c) EXCEPT !.Width = c.Width], r |-> n.r]

Peek(inp, c) ==
    LET n == Next(inp, c) IN [c |-> Backup(n.c), r |-> n.r]

\* Accept without l.Backup() when the rune is not in valid
AcceptNoBackup(inp, c, valid) ==
    LET n == Next(inp, c)
    IN [c |-> n.c, ok |-> IndexRune(valid, n.r)]

Accept(inp, c, valid) ==
    LET n == Next(inp, c)
    IN IF IndexRune(valid, n.r)
       THEN [c |-> n.c, ok |-> TRUE]
       ELSE [c |-> Backup(n.c), ok |-> FALSE]

\* AcceptRun without its closing l.Backup()
RECURSIVE AcceptRunNoBackup(_, _, _)
AcceptRunNoBackup(inp, c, valid) ==
    LET n == Next(inp, c)
    IN IF IndexRune(valid, n.r)
       THEN AcceptRunNoBackup(inp, n.c, valid)
       ELSE n.c

RECURSIVE AcceptRun(_, _, _)
AcceptRun(inp, c, valid) ==
    LET n == Next(inp, c)
    IN IF IndexRune(valid, n.r)
       THEN AcceptRun(inp, n.c, valid)
       ELSE Backup(n.c)

NextHasPrefix(inp, c, prefix) ==
    HasPrefix(Slice(inp, c.Current, Len(inp)), prefix)

---------------------------------------------------------------------------
(* Emission.  x = [c, sends] is a state function in progress: its cursor   *)
(* and the sends it has made so far, each with the cursor at the send.     *)

\* Emit without l.Start = l.Current
EmitKeepsStart(inp, x, tt) ==
    [c |-> x.c,
     sends |-> Append(x.sends,
                      [tok |-> [Typ |-> tt,
                                Val |-> Slice(inp, x.c.Start, x.c.Current)],
                       at |-> x.c])]

Emit(inp, x, tt) ==
    [c |-> [x.c EXCEPT !.Start = x.c.Current],
     sends |-> Append(x.sends,
                      [tok |-> [Typ |-> tt,
                                Val |-> Slice(inp, x.c.Start, x.c.Current)],
                       at |-> x.c])]

CheckEmit(inp, x, t) ==
    IF x.c.Current > x.c.Start THEN Emit(inp, x, t) ELSE x

\* Errorf returning a state to go on with instead of nil
ErrorfContinues(x, msg) ==
    [c |-> x.c,
     sends |-> Append(x.sends,
                      [tok |-> [Typ |-> TokenError, Val |-> msg], at |-> x.c]),
     next |-> "lexText"]

\* Errorf sends the error token and returns nil, the next state
Errorf(x, msg) ==
    [c |-> x.c,
     sends |-> Append(x.sends,
                      [tok |-> [Typ |-> TokenError, Val |-> msg], at |-> x.c]),
     next |-> "nil"]

Advance(x, n) == [x EXCEPT !.c.Current = @ + n]

With(x, c) == [x EXCEPT !.c = c]

Return(x, next) == [c |-> x.c, sends |-> x.sends, next |-> next]

---------------------------------------------------------------------------
(* The test grammar *)

\* mockTextStateFn without l.Emit(TokenEOF) before it returns nil
RECURSIVE mockTextStateFnNoEOF(_, _)
mockTextStateFnNoEOF(inp, x) ==
    IF NextHasPrefix(inp, x.c, openBlock)
    THEN Return(IF x.c.Current > x.c.Start THEN Emit(inp, x, TokenText) ELSE x,
                "mockOpenBlockStateFn")
    ELSE IF NextHasPrefix(inp, x.c, closeBlock)
    THEN Return(IF x.c.Current > x.c.Start THEN Emit(inp, x, TokenText) ELSE x,
                "mockCloseBlockStateFn")
    ELSE IF NextHasPrefix(inp, x.c, newLine)
    THEN Return(IF x.c.Current > x.c.Start THEN Emit(inp, x, TokenText) ELSE x,
                "mockNewLineStateFn")
    ELSE IF NextHasPrefix(inp, x.c, <<"o">>)
    THEN Return(IF x.c.Current > x.c.Start THEN Emit(inp, x, TokenText) ELSE x,
                "mockCharOStateFn")
    ELSE CHOOSE ret \in
             { IF n.r = EOF
               THEN Return(IF n.c.Current > n.c.Start
                           THEN Emit(inp, With(x, n.c), TokenText)
                           ELSE With(x, n.c),
                           "nil")
               ELSE mockTextStateFnNoEOF(inp, With(x, n.c))
               : n \in {Next(inp, x.c)} } : TRUE

RECURSIVE mockTextStateFn(_, _)
mockTextStateFn(inp, x) ==
    IF NextHasPrefix(inp, x.c, openBlock)
    THEN Return(IF x.c.Current > x.c.Start THEN Emit(inp, x, TokenText) ELSE x,
                "mockOpenBlockStateFn")
    ELSE IF NextHasPrefix(inp, x.c, closeBlock)
    THEN Return(IF x.c.Current > x.c.Start THEN Emit(inp, x, TokenText) ELSE x,
                "mockCloseBlockStateFn")
    ELSE IF NextHasPrefix(inp, x.c, newLine)
    THEN Return(IF x.c.Current > x.c.Start THEN Emit(inp, x, TokenText) ELSE x,
                "mockNewLineStateFn")
    ELSE IF NextHasPrefix(inp, x.c, <<"o">>)
    THEN Return(IF x.c.Current > x.c.Start THEN Emit(inp, x, TokenText) ELSE x,
                "mockCharOStateFn")
    ELSE CHOOSE ret \in
             { IF n.r = EOF
               THEN Return(Emit(inp,
                                IF n.c.Current > n.c.Start
                                THEN Emit(inp, With(x, n.c), TokenText)
                                ELSE With(x, n.c),
                                TokenEOF),
                           "nil")
               ELSE mockTextStateFn(inp, With(x, n.c))
               : n \in {Next(inp, x.c)} } : TRUE

mockOpenBlockStateFn(inp, x) ==
    Return(Emit(inp, Advance(x, Len(openBlock)), TokenOpenBlock), "mockTextStateFn")

\* mockCloseBlockStateFn emitting the type of the opening delimiter
mockCloseBlockEmitsOpenBlock(inp, x) ==
    Return(Emit(inp, Advance(x, Len(closeBlock)), TokenOpenBlock), "mockTextStateFn")

mockCloseBlockStateFn(inp, x) ==
    Return(Emit(inp, Advance(x, Len(closeBlock)), TokenCloseBlock), "mockTextStateFn")

mockNewLineStateFn(inp, x) ==
    Return(Emit(inp, Advance(x, Len(newLine)), TokenNewLine), "mockTextStateFn")

mockCharOStateFn(inp, x) ==
    Return(Emit(inp, Advance(x, Len(<<"o">>)), TokenCharO), "mockTextStateFn")

---------------------------------------------------------------------------
(* The template grammar *)

Digits == {"0", "1", "2", "3", "4", "5", "6", "7", "8", "9"}

\* fmt.Sprintf("%q", s) of printable text: the text between double quotes
Quote(s) == <<"\"">> \o s \o <<"\"">>

RECURSIVE lexText(_, _)
lexText(inp, x) ==
    IF HasPrefix(Slice(inp, x.c.Current, Len(inp)), openBlock)
    THEN Return(IF x.c.Current > x.c.Start THEN Emit(inp, x, tokenText) ELSE x,
                "lexOpenBlock")
    ELSE LET n == Next(inp, x.c)
             y == With(x, n.c)
         IN IF n.r = EOF
            THEN Return(Emit(inp,
                             IF y.c.Current > y.c.Start
                             THEN Emit(inp, y, tokenText) ELSE y,
                             TokenEOF),
                        "nil")
            ELSE lexText(inp, y)

lexOpenBlock(inp, x) ==
    Return(Emit(inp, Advance(x, Len(openBlock)), tokenOpenBlock), "lexInsideAction")

lexCloseBlock(inp, x) ==
    Return(Emit(inp, Advance(x, Len(closeBlock)), tokenCloseBlock), "lexText")

RECURSIVE lexInsideAction(_, _)
lexInsideAction(inp, x) ==
    IF HasPrefix(Slice(inp, x.c.Current, Len(inp)), closeBlock)
    THEN Return(x, "lexCloseBlock")
    ELSE LET n == Next(inp, x.c)
             r == n.r
         IN IF r = EOF \/ r = "\n"
            THEN Errorf(With(x, n.c), <<"unclosed action">>)
            ELSE IF IsSpace(r)
            THEN lexInsideAction(inp, With(x, Ignore(n.c)))
            ELSE IF r = "+" \/ r = "-" \/ r \in Digits
            THEN Return(With(x, Backup(n.c)), "lexNumber")
            ELSE IF IsAlpha(r)
            THEN Return(With(x, Ignore(Backup(n.c))), "lexIdentifier")
            ELSE lexInsideAction(inp, With(x, n.c))

RECURSIVE lexIdentifier(_, _)
lexIdentifier(inp, x) ==
    IF HasPrefix(Slice(inp, x.c.Current, Len(inp)), closeBlock)
    THEN Return(IF x.c.Current > x.c.Start THEN Emit(inp, x, tokenIdentifier) ELSE x,
                "lexCloseBlock")
    ELSE LET n == Next(inp, x.c)
             r == n.r
         IN IF r = EOF \/ r = "\n"
            THEN Errorf(With(x, n.c), <<"unclosed action">>)
            ELSE IF IsSpace(r)
            THEN lexIdentifier(inp, With(x, Ignore(n.c)))
            ELSE lexIdentifier(inp, With(x, n.c))

decimal == <<"0", "1", "2", "3", "4", "5", "6", "7", "8", "9">>

hexadecimal ==
    <<"0", "1", "2", "3", "4", "5", "6", "7", "8", "9",
      "a", "b", "c", "d", "e", "f", "A", "B", "C", "D", "E", "F">>

\* lexNumber, in the order of its statements; p is the result of l.peek()
lexNumberEnd(inp, x, p) ==
    IF IsAlpha(p.r)
    THEN LET c == Next(inp, p.c).c
         IN Errorf(With(x, c),
                   <<"bad number syntax: ">> \o Quote(Slice(inp, c.Start, c.Current)))
    ELSE Return(Emit(inp, With(x, p.c), tokenNumber), "lexInsideAction")

\* ae is the result of l.accept("eE")
lexNumberExponent(inp, x, ae) ==
    lexNumberEnd(inp, x,
        Peek(inp,
             Accept(inp,
                    IF ae.ok
                    THEN AcceptRun(inp, Accept(inp, ae.c, <<"+", "-">>).c, decimal)
                    ELSE ae.c,
                    <<"i">>).c))

\* ad is the result of l.accept(".")
lexNumberFraction(inp, x, ad, digits) ==
    lexNumberExponent(inp, x,
        Accept(inp,
               IF ad.ok THEN AcceptRun(inp, ad.c, digits) ELSE ad.c,
               <<"e", "E">>))

lexNumberDigits(inp, x, c, digits) ==
    lexNumberFraction(inp, x, Accept(inp, AcceptRun(inp, c, digits), <<".">>), digits)

\* a0 is the result of l.accept("0"); && evaluates l.accept("xX") only after it
lexNumberPrefix(inp, x, a0) ==
    IF a0.ok
    THEN LET ax == Accept(inp, a0.c, <<"x", "X">>)
         IN lexNumberDigits(inp, x, ax.c, IF ax.ok THEN hexadecimal ELSE decimal)
    ELSE lexNumberDigits(inp, x, a0.c, decimal)

lexNumber(inp, x) ==
    lexNumberPrefix(inp, x, Accept(inp, Accept(inp, x.c, <<"+", "-">>).c, <<"0">>))

---------------------------------------------------------------------------
(* A caller's grammar of one state function: the textStateFn of the usage  *)
(* example (it reads to EOF, emits the pending text and TokenEOF, returns  *)
(* nil), emitting the pending text at each newline as well                  *)

RECURSIVE textLinesStateFn(_, _)
textLinesStateFn(inp, x) ==
    CHOOSE ret \in
        { IF n.r = EOF
          THEN Return(Emit(inp,
                           IF n.c.Current > n.c.Start
                           THEN Emit(inp, With(x, n.c), TokenText)
                           ELSE With(x, n.c),
                           TokenEOF),
                      "nil")
          ELSE IF n.r = "\n"
          THEN textLinesStateFn(inp, Emit(inp, With(x, n.c), TokenText))
          ELSE textLinesStateFn(inp, With(x, n.c))
          : n \in {Next(inp, x.c)} } : TRUE

---------------------------------------------------------------------------
(* The state machine *)

\* state(l): one state function run to its return
Invoke(state, inp, c) ==
    LET x == [c |-> c, sends |-> <<>>]
    IN CASE state = "mockTextStateFn" -> mockTextStateFn(inp, x)
         [] state = "mockOpenBlockStateFn" -> mockOpenBlockStateFn(inp, x)
         [] state = "mockCloseBlockStateFn" -> mockCloseBlockStateFn(inp, x)
         [] state = "mockNewLineStateFn" -> mockNewLineStateFn(inp, x)
         [] state = "mockCharOStateFn" -> mockCharOStateFn(inp, x)
         [] state = "lexText" -> lexText(inp, x)
         [] state = "lexOpenBlock" -> lexOpenBlock(inp, x)
         [] state = "lexCloseBlock" -> lexCloseBlock(inp, x)
         [] state = "lexInsideAction" -> lexInsideAction(inp, x)
         [] state = "lexIdentifier" -> lexIdentifier(inp, x)
         [] state = "lexNumber" -> lexNumber(inp, x)
         [] state = "textLinesStateFn" -> textLinesStateFn(inp, x)

InitialState(g) ==
    IF g = "mock" THEN "mockTextStateFn"
    ELSE IF g = "lines" THEN "textLinesStateFn"
    ELSE "lexText"

---------------------------------------------------------------------------
(* The inputs *)

Alphabet == {"{", "}", "o", "\n", "1", "C3", "A9"}

Strings(alphabet, n) == UNION {[1..k -> alphabet] : k \in 0..n}

testString ==
    <<"<", "d", "i", "v", ">", "{", "{", "n", "a", "m", "e", "}", "}",
      "<", "/", "d", "i", "v", ">">>

Fixtures ==
    {testString,
     <<"{", "{", "n", "a", "m", "e", "}", "}">>,
     <<"a", "{", "{", " ", "+", "1", ".", "5", "e", "2", "i", " ", "}", "}">>,
     <<"{", "{", "0", "x", "F", "g">>}

Inputs == Strings(Alphabet, MaxLen) \cup Fixtures

Grammars == {"mock", "lex"}

---------------------------------------------------------------------------
(* Histories *)

\* op, the history of the primitives called one at a time:
\*   name, valid, ret, sends  the last call, its argument, its result, its sends
\*   pre        the cursor before it
\*   undo       for a Backup right after a Next: <<Current before that Next>>
\*   mark       <<Current before the last Next>>, as long as only Peek calls and
\*              then one Backup followed that Next
\*   canBackup  no Backup was called since the last Next call
\*   direct     every Backup call so far came right after a Next call
\*   moved      the last of l.Next() / l.Backup() to run, inside Peek, Accept
\*              and AcceptRun too
\*   once       no l.Backup() so far ran after another with no l.Next() between
NoOp == [name |-> "New", pre |-> Cursor0, valid |-> <<>>, ret |-> "",
         sends |-> <<>>, undo |-> <<>>, mark |-> <<>>, canBackup |-> TRUE,
         direct |-> TRUE,
         moved |-> "", once |-> TRUE]

Idle == [pc |-> "off", state |-> "nil", pending |-> <<>>, final |-> Cursor0,
         next |-> "nil"]

Toks(sends) == [i \in 1..Len(sends) |-> sends[i].tok]

IsTerminal(tok) == tok.Typ = TokenEOF \/ tok.Typ = TokenError

---------------------------------------------------------------------------
(* New *)

New(input, g) ==
    /\ Input = input
    /\ grammar = g
    /\ State = InitialState(g)
    /\ cur = Cursor0
    /\ Tokens = <<>>
    /\ capacity = NewCap
    /\ closed = FALSE
    /\ run = Idle
    /\ received = <<>>
    /\ last = <<>>
    /\ halt = ""
    /\ log = <<>>
    /\ closedAt = -1
    /\ op = NoOp

Init ==
    /\ mode = "new"
    /\ \E input \in Inputs, g \in Grammars : New(input, g)

---------------------------------------------------------------------------
(* RunConc, RunSync and run() *)

\* make(chan Token, len(l.Input)/2)
RunCap(input) == Len(input) \div 2

StartRun(m) ==
    /\ mode = "new"
    /\ mode' = m
    /\ capacity' = RunCap(Input)
    /\ Tokens' = <<>>
    /\ run' = [Idle EXCEPT !.pc = "loop", !.state = InitialState(grammar)]
    /\ UNCHANGED <<Input, grammar, State, cur, closed, received, last, halt,
                   log, closedAt, op>>

\* go l.run()
RunConc == StartRun("conc")

\* l.run() inline: Listen is called only after it returns
RunSync == StartRun("sync")

\* state = state(l), up to the state function's first send or its return
RunInvoke ==
    /\ run.pc = "loop"
    /\ run.state /= "nil"
    /\ LET r == Invoke(run.state, Input, cur)
       IN IF r.sends = <<>>
          THEN /\ cur' = r.c
               /\ run' = [run EXCEPT !.state = r.next]
          ELSE /\ cur' = r.sends[1].at
               /\ run' = [run EXCEPT !.pc = "send", !.pending = r.sends,
                                     !.final = r.c, !.next = r.next]
    /\ UNCHANGED <<Input, grammar, mode, State, Tokens, capacity, closed,
                   received, last, halt, log, closedAt, op>>

\* the state function after its send completed: on to its next send, or its return
AfterSend(rn) ==
    LET rest == Tail(rn.pending)
    IN IF rest = <<>>
       THEN [rn EXCEPT !.pc = "loop", !.pending = <<>>, !.state = rn.next]
       ELSE [rn EXCEPT !.pending = rest]

CursorAfterSend(rn) ==
    IF Tail(rn.pending) = <<>> THEN rn.final ELSE rn.pending[2].at

\* l.Tokens <- token, into the buffer: it waits while the buffer is full
RunSend ==
    /\ run.pc = "send"
    /\ Len(Tokens) < capacity
    /\ Tokens' = Append(Tokens, Head(run.pending).tok)
    /\ log' = Append(log, Head(run.pending))
    /\ cur' = CursorAfterSend(run)
    /\ run' = AfterSend(run)
    /\ UNCHANGED <<Input, grammar, mode, State, capacity, closed, received,
                   last, halt, closedAt, op>>

\* run() returning without close(l.Tokens)
RunReturnsWithoutClose ==
    /\ run.pc = "loop"
    /\ run.state = "nil"
    /\ run' = [run EXCEPT !.pc = "done"]
    /\ UNCHANGED <<Input, grammar, mode, State, cur, Tokens, capacity, closed,
                   received, last, halt, log, closedAt, op>>

\* close(l.Tokens), and run() returns
RunClose ==
    /\ run.pc = "loop"
    /\ run.state = "nil"
    /\ closed' = TRUE
    /\ closedAt' = Len(log)
    /\ run' = [run EXCEPT !.pc = "done"]
    /\ UNCHANGED <<Input, grammar, mode, State, cur, Tokens, capacity,
                   received, last, halt, log, op>>

---------------------------------------------------------------------------
(* Listen *)

\* Listen setting done for TokenError in place of TokenEOF
ListenReturnOnError(tok) == [tok |-> tok, done |-> tok.Typ = TokenError]

\* what Listen returns for the token it received
ListenReturn(tok) == [tok |-> tok, done |-> tok.Typ = TokenEOF]

\* the consumer calls again until it is returned done
Done == IF last = <<>> THEN FALSE ELSE last[1].done

Calling == halt = "" /\ ~Done

Listening ==
    /\ Calling
    /\ mode = "conc" \/ (mode = "sync" /\ run.pc = "done")

Returned(ret) ==
    /\ received' = Append(received, ret.tok)
    /\ last' = <<ret>>

\* a buffered token is received
ListenBuffered ==
    /\ Listening
    /\ Tokens /= <<>>
    /\ Tokens' = Tail(Tokens)
    /\ Returned(ListenReturn(Head(Tokens)))
    /\ UNCHANGED <<Input, grammar, mode, State, cur, capacity, closed, run,
                   halt, log, closedAt, op>>

\* the channel has no buffer: the waiting sender hands its token over
ListenRendezvous ==
    /\ Listening
    /\ capacity = 0
    /\ run.pc = "send"
    /\ log' = Append(log, Head(run.pending))
    /\ cur' = CursorAfterSend(run)
    /\ run' = AfterSend(run)
    /\ Returned(ListenReturn(Head(run.pending).tok))
    /\ UNCHANGED <<Input, grammar, mode, State, Tokens, capacity, closed,
                   halt, closedAt, op>>

\* the channel is closed and drained: the receive yields the zero Token
ListenClosed ==
    /\ Listening
    /\ closed
    /\ Tokens = <<>>
    /\ Len(received) < Len(log) + MaxClosedReads
    /\ Returned(ListenReturn(ZeroToken))
    /\ UNCHANGED <<Input, grammar, mode, State, cur, Tokens, capacity, closed,
                   run, halt, log, closedAt, op>>

Listen == ListenBuffered \/ ListenRendezvous \/ ListenClosed

---------------------------------------------------------------------------
(* NextToken *)

\* NextToken setting done for TokenError in place of TokenEOF
NextTokenReturnOnError(tok) == [tok |-> tok, done |-> tok.Typ = TokenError]

\* what NextToken returns for the token it received
NextTokenReturn(tok) == [tok |-> tok, done |-> tok.Typ = TokenEOF]

\* One call of NextToken on l = [State, cur, Tokens, log] with a channel of
\* capacity cap: the loop of non-blocking receive and l.State = l.State(l).
\* It returns, or panics calling a nil State, or blocks for ever in a send to
\* the full channel nobody else receives from.
RECURSIVE NextTokenOp(_, _, _)
NextTokenOp(inp, cap, l) ==
    IF l.Tokens /= <<>>
    THEN [end |-> "return", ret |-> <<NextTokenReturn(Head(l.Tokens))>>,
          l |-> [l EXCEPT !.Tokens = Tail(l.Tokens)]]
    ELSE IF l.State = "nil"
    THEN [end |-> "panic", ret |-> <<>>, l |-> l]
    ELSE LET r == Invoke(l.State, inp, l.cur)
         IN IF Len(r.sends) > cap
            THEN [end |-> "blocked", ret |-> <<>>,
                  l |-> [l EXCEPT !.cur = r.sends[cap + 1].at,
                                  !.Tokens = Toks(SubSeq(r.sends, 1, cap)),
                                  !.log = l.log \o SubSeq(r.sends, 1, cap)]]
            ELSE NextTokenOp(inp, cap,
                             [State |-> r.next, cur |-> r.c,
                              Tokens |-> Toks(r.sends),
                              log |-> l.log \o r.sends])

NextToken ==
    /\ mode \in {"new", "pull"}
    /\ Calling
    /\ mode' = "pull"
    /\ LET n == NextTokenOp(Input, capacity,
                            [State |-> State, cur |-> cur, Tokens |-> Tokens,
                             log |-> log])
       IN /\ State' = n.l.State
          /\ cur' = n.l.cur
          /\ Tokens' = n.l.Tokens
          /\ log' = n.l.log
          /\ halt' = IF n.end = "return" THEN "" ELSE n.end
          /\ last' = n.ret
          /\ received' = IF n.end = "return"
                         THEN Append(received, n.ret[1].tok) ELSE received
    /\ UNCHANGED <<Input, grammar, capacity, closed, run, closedAt, op>>

\* The tokens repeated NextToken calls return after New, until done, panic or block
RECURSIVE PullFrom(_, _, _, _)
PullFrom(inp, cap, l, got) ==
    LET n == NextTokenOp(inp, cap, l)
    IN IF n.end /= "return"
       THEN [toks |-> got, end |-> n.end]
       ELSE IF n.ret[1].done
       THEN [toks |-> Append(got, n.ret[1].tok), end |-> "done"]
       ELSE PullFrom(inp, cap, n.l, Append(got, n.ret[1].tok))

PullRun(inp, g) ==
    PullFrom(inp, NewCap,
             [State |-> InitialState(g), cur |-> Cursor0, Tokens |-> <<>>,
              log |-> <<>>],
             <<>>)

---------------------------------------------------------------------------
Next1 == RunConc \/ RunSync \/ RunInvoke \/ RunSend \/ RunClose \/ Listen \/ NextToken

Spec == Init /\ [][Next1]_vars

---------------------------------------------------------------------------
(* New followed by NextToken calls only, for the two grammars and the      *)
(* caller's grammar of one state function                                   *)

PullGrammars == Grammars \cup {"lines"}

InitPull ==
    /\ mode = "new"
    /\ \E input \in Inputs, g \in PullGrammars : New(input, g)

NextPull == NextToken

SpecPull == InitPull /\ [][NextPull]_vars

---------------------------------------------------------------------------
(* The cursor primitives called one at a time, in any order, on a lexer    *)
(* whose consumer is always ready to receive: the token an Emit hands to   *)
(* the channel is kept in op.sends.  Backup is called at most once after   *)
(* each Next.  A slice expression out of range panics.                     *)

PrimAlphabet == {"a", "b", "C3", "A9"}

PrimInputs == Strings(PrimAlphabet, MaxPrimLen)

ValidSets == {<<"a">>, <<"b", "C3", "A9">>, <<"A9">>}

InitPrim ==
    /\ mode = "prim"
    /\ \E input \in PrimInputs : New(input, "mock")

\* l.Input[l.Current:] is in range
CanRead == cur.Current >= 0

\* l.Input[l.Start:l.Current] is in range
CanSlice == 0 <= cur.Start /\ cur.Start <= cur.Current /\ cur.Current <= Len(Input)

Applied(name, valid, ret, sends, c) ==
    /\ mode = "prim"
    /\ halt = ""
    /\ cur' = c
    /\ op' = [name |-> name, pre |-> cur, valid |-> valid, ret |-> ret,
              sends |-> sends,
              undo |-> IF name = "Backup" /\ op.name = "Next"
                       THEN <<op.pre.Current>> ELSE <<>>,
              mark |-> IF name = "Next" THEN <<cur.Current>>
                       ELSE IF name \in {"Peek", "Backup"}
                               /\ op.name \in {"Next", "Peek"}
                       THEN op.mark
                       ELSE <<>>,
              canBackup |-> IF name = "Next" THEN TRUE
                            ELSE IF name = "Backup" THEN FALSE
                            ELSE op.canBackup,
              direct |-> IF name = "Backup"
                         THEN op.direct /\ op.name = "Next"
                         ELSE op.direct,
              moved |-> IF name = "Next" \/ (name = "Accept" /\ ret = "true")
                        THEN "next"
                        ELSE IF name \in {"Backup", "Peek", "Accept", "AcceptRun"}
                        THEN "backup"
                        ELSE op.moved,
              once |-> IF name = "Backup"
                       THEN op.once /\ op.moved /= "backup"
                       ELSE op.once]
    /\ UNCHANGED <<Input, grammar, mode, State, Tokens, capacity, closed, run,
                   received, last, halt, log, closedAt>>

Panic(name) ==
    /\ mode = "prim"
    /\ halt = ""
    /\ halt' = "panic"
    /\ op' = [op EXCEPT !.name = name, !.pre = cur, !.ret = "", !.sends = <<>>,
                         !.undo = <<>>, !.mark = <<>>, !.valid = <<>>]
    /\ UNCHANGED <<Input, grammar, mode, State, cur, Tokens, capacity, closed,
                   run, received, last, log, closedAt>>

Bool(b) == IF b THEN "true" ELSE "false"

PrimNext ==
    IF CanRead
    THEN LET n == Next(Input, cur) IN Applied("Next", <<>>, n.r, <<>>, n.c)
    ELSE Panic("Next")

PrimBackup ==
    /\ op.canBackup
    /\ Applied("Backup", <<>>, "", <<>>, Backup(cur))

PrimPeek ==
    IF CanRead
    THEN LET n == Peek(Input, cur) IN Applied("Peek", <<>>, n.r, <<>>, n.c)
    ELSE Panic("Peek")

PrimAccept ==
    \E valid \in ValidSets :
        IF CanRead
        THEN LET a == Accept(Input, cur, valid)
             IN Applied("Accept", valid, Bool(a.ok), <<>>, a.c)
        ELSE Panic("Accept")

PrimAcceptRun ==
    \E valid \in ValidSets :
        IF CanRead
        THEN Applied("AcceptRun", valid, "", <<>>, AcceptRun(Input, cur, valid))
        ELSE Panic("AcceptRun")

PrimIgnore == Applied("Ignore", <<>>, "", <<>>, Ignore(cur))

PrimEmit ==
    IF CanSlice
    THEN LET x == Emit(Input, [c |-> cur, sends |-> <<>>], TokenText)
         IN Applied("Emit", <<>>, "", x.sends, x.c)
    ELSE Panic("Emit")

PrimCheckEmit ==
    IF cur.Current > cur.Start => CanSlice
    THEN LET x == CheckEmit(Input, [c |-> cur, sends |-> <<>>], TokenText)
         IN Applied("CheckEmit", <<>>, "", x.sends, x.c)
    ELSE Panic("CheckEmit")

NextPrim ==
    \/ PrimNext
    \/ PrimBackup
    \/ PrimPeek
    \/ PrimAccept
    \/ PrimAcceptRun
    \/ PrimIgnore
    \/ PrimEmit
    \/ PrimCheckEmit

SpecPrim == InitPrim /\ [][NextPrim]_vars

---------------------------------------------------------------------------
(* Properties *)

IsPrefix(s, t) == Len(s) <= Len(t) /\ SubSeq(t, 1, Len(s)) = s

RECURSIVE Concat(_)
Concat(ss) == IF ss = <<>> THEN <<>> ELSE Head(ss) \o Concat(Tail(ss))

\* the Val fields of the tokens of toks that are not terminal, in order
RECURSIVE Vals(_)
Vals(toks) ==
    IF toks = <<>> THEN <<>>
    ELSE IF IsTerminal(Head(toks)) THEN Vals(Tail(toks))
    ELSE <<Head(toks).Val>> \o Vals(Tail(toks))

Min(a, b) == IF a <= b THEN a ELSE b

\* the state machine has reached Terminal: a state function returned nil
Terminal ==
    IF mode = "pull" THEN State = "nil"
    ELSE mode \in {"conc", "sync"} /\ run.pc \in {"loop", "done"} /\ run.state = "nil"

\* the call that drove the state machine to Terminal has returned
Returned1 ==
    IF mode = "pull" THEN State = "nil"
    ELSE mode \in {"conc", "sync"} /\ run.pc = "done"

InBounds(c) == 0 <= c.Start /\ c.Start <= c.Current /\ c.Current <= Len(Input)

\* the character at byte offset pos of the input: what a read there decodes
CharAt(pos) ==
    IF pos >= Len(Input) THEN EOF
    ELSE DecodeRuneInString(Slice(Input, pos, Len(Input))).r

WidthAt(pos) ==
    IF pos >= Len(Input) THEN 0
    ELSE DecodeRuneInString(Slice(Input, pos, Len(Input))).size

\* C1 (as claimed): the tokens Listen has returned in push mode are at every
\* moment a prefix of the tokens repeated NextToken calls return for the same
\* grammar and input, and are all of them once Listen has returned done.
C1_PushEqualsPull ==
    mode = "conc" =>
        LET pull == PullRun(Input, grammar)
        IN /\ IsPrefix(received, pull.toks)
           /\ Done => received = pull.toks

\* C2: once the state machine has reached Terminal, exactly one of the tokens
\* sent on the channel is a TokenEOF or TokenError, it is the last one sent,
\* and nothing was sent after the channel was closed.
C2_OneTerminalTokenLast ==
    Terminal =>
        /\ Len(log) > 0
        /\ {i \in 1..Len(log) : IsTerminal(log[i].tok)} = {Len(log)}
        /\ closed => closedAt = Len(log)

C2_Witness ==
    /\ Terminal
    /\ closed
    /\ Len(log) >= 3
    /\ log[Len(log)].tok.Typ = TokenEOF

\* C3 (as claimed): the done flag Listen and NextToken return is true exactly
\* when the returned token's type is TokenEOF or TokenError.
C3_DoneIffTerminal ==
    IF last = <<>> THEN TRUE
    ELSE last[1].done <=> IsTerminal(last[1].tok)

\* C4: every token sent that is not terminal carries Input[Start:Current] of
\* the cursor at its send, these regions lie in the input at increasing
\* offsets without overlap, the values delivered to the consumer concatenate
\* to the values sent in the same order, and for the test grammar the values
\* delivered by a finished run concatenate to the whole input.
C4_ValuesCoverInput ==
    /\ \A i \in 1..Len(log) :
          ~IsTerminal(log[i].tok) =>
              /\ InBounds(log[i].at)
              /\ log[i].tok.Val = Slice(Input, log[i].at.Start, log[i].at.Current)
              /\ i > 1 => log[i - 1].at.Current <= log[i].at.Start
    /\ Concat(Vals(received))
         = Concat(Vals(SubSeq(Toks(log), 1, Min(Len(received), Len(log)))))
    /\ (grammar = "mock" /\ Done) => Concat(Vals(received)) = Input

C4_Witness ==
    /\ Done
    /\ Len(received) >= 4
    /\ \E i \in 1..Len(log) : log[i].at.Width = 2

\* C5 (as claimed): after each primitive, in a run of primitives where no
\* l.Backup() ran after another without an l.Next() in between,
\* 0 <= Start <= Current <= len(Input).
C5_BoundsUnlessBackupTwice ==
    (mode = "prim" /\ halt = "" /\ op.once) => InBounds(cur)

\* C5 (amended): after each primitive, in a run of primitives where every
\* Backup call came right after a Next call, 0 <= Start <= Current <= len(Input).
C5_BoundsWhenBackupFollowsNext ==
    (mode = "prim" /\ halt = "" /\ op.direct) => InBounds(cur)

C5_Witness ==
    /\ op.name = "Backup"
    /\ op.direct
    /\ cur.Start > 0
    /\ op.pre.Current > cur.Current

\* C6: a Backup called right after a Next leaves Current where it was before
\* that Next, at the end of input too; a Peek returns the character at Current
\* and leaves Current where it was.
C6_BackupUndoesNextPeekKeepsCurrent ==
    /\ (op.name = "Backup" /\ op.undo /= <<>>) => cur.Current = op.undo[1]
    /\ (op.name = "Peek" /\ halt = "") =>
          /\ cur.Current = op.pre.Current
          /\ op.ret = CharAt(op.pre.Current)

C6_Witness ==
    /\ op.name = "Backup"
    /\ op.undo /= <<>>
    /\ Len(Input) > 0
    /\ op.undo[1] = Len(Input)

\* C7: Accept(valid) returns true and moves Current on by the byte width of
\* the character at Current when that character is in valid; otherwise (not in
\* valid, or end of input) it returns false and leaves Current where it was.
C7_AcceptAdvancesIffInSet ==
    (op.name = "Accept" /\ halt = "") =>
        LET pos == op.pre.Current
        IN IF pos < Len(Input) /\ CharAt(pos) \in RunesOf(op.valid)
           THEN op.ret = "true" /\ cur.Current = pos + WidthAt(pos)
           ELSE op.ret = "false" /\ cur.Current = pos

C7_Witness ==
    /\ op.name = "Accept"
    /\ op.ret = "true"
    /\ cur.Current = op.pre.Current + 2

\* C8 (as claimed): in push mode the tokens received through Listen are at
\* every moment a prefix of the tokens sent, in the same order, and the buffer
\* never holds more than its capacity.
C8_ReceivedPrefixOfSent ==
    mode = "conc" =>
        /\ IsPrefix(received, Toks(log))
        /\ Len(Tokens) <= capacity

\* C9 (as claimed): once the call that drove the state machine to Terminal has
\* returned, run() or NextToken, the channel is closed, and nothing is sent
\* after the close.
C9_ClosedAfterTerminal ==
    /\ Returned1 => closed
    /\ closed => closedAt = Len(log)

\* C9 (amended): once run() has returned the channel is closed, it is closed
\* by nothing else, and nothing is sent after the close; under NextToken the
\* channel is never closed.
C9_RunClosesNextTokenDoesNot ==
    /\ run.pc = "done" <=> closed
    /\ closed => closedAt = Len(log)
    /\ mode = "pull" => ~closed

C9_Witness ==
    /\ mode = "conc"
    /\ closed
    /\ Len(log) >= 2
    /\ Tokens /= <<>>

\* C10: an Error token on the channel is the last token sent, it carries the
\* formatted message, it is the only Error token, no TokenEOF was sent, and
\* the state machine is at Terminal: no state function runs after it.
C10_ErrorIsFatal ==
    \A i \in 1..Len(log) :
        log[i].tok.Typ = TokenError =>
            /\ i = Len(log)
            /\ \A j \in 1..Len(log) : log[j].tok.Typ = TokenEOF => FALSE
            /\ \/ log[i].tok.Val = <<"unclosed action">>
               \/ /\ Head(log[i].tok.Val) = "bad number syntax: "
                  /\ Tail(log[i].tok.Val)
                       = Quote(Slice(Input, log[i].at.Start, log[i].at.Current))
            /\ Terminal
            /\ Input = openBlock => Toks(log) = <<[Typ |-> tokenOpenBlock, Val |-> openBlock],
                                                  [Typ |-> TokenError, Val |-> <<"unclosed action">>]>>

C10_Witness ==
    /\ closed
    /\ Len(log) >= 2
    /\ log[Len(log)].tok.Typ = TokenError
    /\ Len(log[Len(log)].tok.Val) > 1

---------------------------------------------------------------------------
(* RunConc and Listen calls only, for the test grammar on every input and  *)
(* for the template grammar on an unclosed block (a run that ends with      *)
(* Errorf): the runner goroutine and the consumer both keep being scheduled *)

ConcInputs == Strings(Alphabet, MaxConcLen)

UnclosedBlock == <<"{", "{">>

InitConc ==
    /\ mode = "new"
    /\ \/ \E input \in ConcInputs : New(input, "mock")
       \/ New(UnclosedBlock, "lex")

NextConc == RunConc \/ RunInvoke \/ RunSend \/ RunClose \/ Listen

SpecConc ==
    /\ InitConc
    /\ [][NextConc]_vars
    /\ WF_vars(RunInvoke)
    /\ WF_vars(RunSend)
    /\ WF_vars(RunClose)
    /\ WF_vars(Listen)

\* C11: after RunConc with the test grammar, whatever the input and the
\* interleaving, and with the channel of capacity len(Input)/2 (0 included),
\* the consumer calling Listen is eventually returned done = true and the
\* runner eventually returns: neither side blocks for ever.
C11_RunConcListenReachesDone ==
    (mode = "conc" /\ grammar = "mock") ~> (Done /\ run.pc = "done")

\* done = true was received over a channel without buffer
C11_Witness ==
    /\ mode = "conc"
    /\ grammar = "mock"
    /\ capacity = 0
    /\ Len(received) > 1
    /\ Done
    /\ run.pc = "done"

\* C12: RunSync with the test grammar returns for every input: its inline
\* run() is never left waiting in a send to the full channel of capacity
\* len(Input)/2, which no Listen call can empty before RunSync has returned.
C12_RunSyncReturns ==
    (mode = "sync" /\ grammar = "mock") =>
        ~(run.pc = "send" /\ Len(Tokens) >= capacity)

\* the tokens of `<div>{{name}}</div>` under the test grammar
ScenarioA ==
    << [Typ |-> TokenText, Val |-> SubSeq(testString, 1, 5)],
       [Typ |-> TokenOpenBlock, Val |-> <<"{", "{">>],
       [Typ |-> TokenText, Val |-> <<"n", "a", "m", "e">>],
       [Typ |-> TokenCloseBlock, Val |-> <<"}", "}">>],
       [Typ |-> TokenText, Val |-> SubSeq(testString, 14, 19)],
       [Typ |-> TokenEOF, Val |-> <<>>] >>

\* C13: for the input `<div>{{name}}</div>` and the test grammar, repeated
\* NextToken returns Text(`<div>`), OpenBlock(`{{`), Text(`name`),
\* CloseBlock(`}}`), Text(`</div>`) with done = false and then the TokenEOF
\* token with done = true: 5 tokens before the terminal one, and no call
\* panics or blocks.
C13_ScenarioA ==
    (mode = "pull" /\ grammar = "mock" /\ Input = testString) =>
        /\ halt = ""
        /\ IsPrefix(received, ScenarioA)
        /\ last /= <<>>
        /\ last[1].tok = received[Len(received)]
        /\ last[1].done <=> Len(received) = 6

\* the sixth call returned done = true
C13_Witness ==
    /\ mode = "pull"
    /\ grammar = "mock"
    /\ Input = testString
    /\ Done
    /\ received = ScenarioA
    /\ Concat(Vals(received)) = testString

\* C14: for the empty input, under NextToken and under RunConc + Listen, the
\* consumer receives one token only, the TokenEOF token with done = true, and
\* no text token; a NextToken call returns it at once, without panic or block.
C14_EmptyInputOnlyEOF ==
    (Input = <<>> /\ mode \in {"pull", "conc"}) =>
        /\ halt = ""
        /\ received \in {<<>>, <<[Typ |-> TokenEOF, Val |-> <<>>]>>}
        /\ received /= <<>> => Done
        /\ mode = "pull" => received /= <<>>

\* the TokenEOF token of the empty input was received from the runner's goroutine
C14_Witness ==
    /\ Input = <<>>
    /\ mode = "conc"
    /\ capacity = 0
    /\ received = <<[Typ |-> TokenEOF, Val |-> <<>>]>>
    /\ Done
    /\ closed

\* C15: after New, for a grammar whose every path sends a terminal token and
\* returns nil, every NextToken call returns a token: no send inside a state
\* function waits for ever, however many tokens one state function sends
\* before it returns.
C15_NextTokenNeverBlocks ==
    mode = "pull" => halt /= "blocked"

\* C16: Emit(t) sends one token, Token{t, Input[Start:Current]} of the
\* pending region before the call, then sets Start = Current and leaves
\* Current, Width, Input and State as they were; with Start = Current the
\* token's Val is empty.
C16_EmitSendsPendingRegion ==
    (op.name = "Emit" /\ halt = "") =>
        /\ Len(op.sends) = 1
        /\ op.sends[1].tok =
               [Typ |-> TokenText,
                Val |-> [i \in 1..(op.pre.Current - op.pre.Start) |->
                             Input[op.pre.Start + i]]]
        /\ cur = [Start |-> op.pre.Current, Current |-> op.pre.Current,
                  Width |-> op.pre.Width]
        /\ State = InitialState(grammar)
        /\ op.pre.Start = op.pre.Current => op.sends[1].tok.Val = <<>>

\* an Emit with nothing pending, after a two-byte rune was read and emitted,
\* sent a token with an empty Val
C16_Witness ==
    /\ op.name = "Emit"
    /\ halt = ""
    /\ op.pre.Start = op.pre.Current
    /\ op.pre.Current = 2
    /\ op.pre.Width = 2
    /\ op.sends[1].tok.Val = <<>>

\* the cursor after Accept(valid) was called until it returned false
RECURSIVE AcceptUntilFalse(_, _, _)
AcceptUntilFalse(inp, c, valid) ==
    LET a == Accept(inp, c, valid)
    IN IF a.ok THEN AcceptUntilFalse(inp, a.c, valid) ELSE a.c

\* C17: AcceptRun(set) returns on every input and leaves Start, Current and
\* Width as calling Accept(set) until it returns false leaves them: Start is
\* kept, and Current is at the end of the input or at a character not in set.
C17_AcceptRunIsRepeatedAccept ==
    (op.name = "AcceptRun" /\ halt = "") =>
        /\ cur = AcceptUntilFalse(Input, op.pre, op.valid)
        /\ cur.Start = op.pre.Start
        /\ cur.Current >= op.pre.Current
        /\ cur.Current <= Len(Input)
        /\ cur.Current < Len(Input) => ~IndexRune(op.valid, CharAt(cur.Current))

\* AcceptRun ran over two characters or more and stopped before the end
C17_Witness ==
    /\ op.name = "AcceptRun"
    /\ halt = ""
    /\ cur.Current >= op.pre.Current + 2
    /\ cur.Current < Len(Input)
    /\ cur.Width = 1

\* C18 (as claimed): Peek leaves Start, Current and Width as they were, so
\* after Next and then any number of Peek calls one Backup puts Current back
\* where it was before that Next.
C18_PeekKeepsUndoMemory ==
    /\ (op.name = "Peek" /\ halt = "") => cur = op.pre
    /\ (op.name = "Backup" /\ op.mark /= <<>>) => cur.Current = op.mark[1]

\* C18 (amended): Peek leaves Start and Current as they were, returns the
\* next character and sets Width to the width of that character (0 at the end
\* of the input); after Next and then Peek calls, one Backup moves Current
\* back by that width, which puts it where it was before the Next exactly
\* when the character peeked is as wide as the character Next read.
C18_PeekOverwritesWidth ==
    /\ (op.name = "Peek" /\ halt = "") =>
           /\ cur = [op.pre EXCEPT !.Width = WidthAt(op.pre.Current)]
           /\ op.ret = CharAt(op.pre.Current)
    /\ (op.name = "Backup" /\ op.mark /= <<>>) =>
           /\ cur.Current = op.pre.Current - op.pre.Width
           /\ cur.Current = op.mark[1] <=> op.pre.Width = WidthAt(op.mark[1])

\* Next read a one-byte character, Peek saw a two-byte one, and the Backup
\* went two bytes back
C18_Witness ==
    /\ op.name = "Backup"
    /\ op.mark /= <<>>
    /\ op.undo = <<>>
    /\ op.pre.Width = 2
    /\ WidthAt(op.mark[1]) = 1
    /\ cur.Current = op.mark[1] - 1

\* C19: every token Listen has returned is a token a state function sent with
\* Emit or Errorf, in the order sent; in particular, after run() closed the
\* channel and the buffered tokens were received, Listen returns no further
\* token with done = false.
C19_ListenReturnsOnlySentTokens ==
    mode \in {"conc", "sync"} =>
        /\ Len(received) <= Len(log)
        /\ \A i \in 1..Len(received) :
               i <= Len(log) => received[i] = log[i].tok

\* C20: in pull mode no NextToken call of a consumer that calls until it is
\* returned done = true invokes a nil State, whether the run ends with the
\* TokenEOF token or with Errorf.
C20_NextTokenNeverCallsNilState ==
    mode = "pull" => halt /= "panic"

===========================================================================
